---- MODULE Spec2Model ----
(***************************************************************************)
(* The retry-wrapped HTTP call helpers of src/utils/apiCallHelper.ts       *)
(* (getAPI, postAPI, putAPI, deleteAPI) as a state machine.                *)
(*                                                                         *)
(* A call is an invocation of one of the four async functions.  JavaScript *)
(* runs a call without interruption between two awaits, so one action is   *)
(* one run of the function body from a resumption (the invocation, the     *)
(* settling of `await request.<method>(...)`, the settling of              *)
(* `await response.json()`) to the next suspension or to the return/throw. *)
(* The request executor (Playwright's APIRequestContext), the server, the  *)
(* body text and the schema are the environment: the status code of a      *)
(* response, whether the request promise rejects, and the body text that   *)
(* response.json() reads are chosen nondeterministically.                  *)
(***************************************************************************)
EXTENDS Integers, Sequences, FiniteSets, TLC

(* ------------------------------ bounds --------------------------------- *)

\* Largest retryCount a caller passes explicitly (Spec, CompletingSpec).
MaxRetryCount == 3

\* Largest retryCount a caller passes when two calls run interleaved
\* (ConcurrentSpec).
MaxConcurrentRetryCount == 2

\* The largest amountOfUsers createRandomUsersRequestBody is called with.
MaxUsers == 3

(* ------------------------- program constants --------------------------- *)

\* `retryCount: number = 5`
DefaultRetryCount == 5

\* The calls that may be in progress at once: two invocations, enough for
\* every interleaving of one call's awaits with another's.
Calls == {"c1", "c2"}

\* The four exported functions.
Apis == {"getAPI", "postAPI", "putAPI", "deleteAPI"}

\* request.get / request.post / request.put / request.delete
HttpMethod(api) ==
    CASE api = "getAPI"    -> "GET"
      [] api = "postAPI"   -> "POST"
      [] api = "putAPI"    -> "PUT"
      [] api = "deleteAPI" -> "DELETE"

Urls == {"/user", "/user/login"}

\* Status codes the server answers with: the success code, a 4xx and a 5xx.
StatusCodes == {200, 404, 500}

\* Values the callers pass as expectedStatusCode.
ExpectedStatusCodes == {200, 404}

\* Body texts a response may carry: two JSON documents and one that is no JSON.
BodyTexts == {"{code:200,type:unknown,message:7}",
              "{code:200,type:unknown,message:wrong-value}",
              "<html>"}

NoBody == ""

\* response.json(): the parsed value of a body text; ok = FALSE when the text
\* is no JSON and json() rejects with a SyntaxError.
JsonParse(text) ==
    CASE text = "{code:200,type:unknown,message:7}" ->
            [ok |-> TRUE, code |-> 200, type |-> "unknown", message |-> "7"]
      [] text = "{code:200,type:unknown,message:wrong-value}" ->
            [ok |-> TRUE, code |-> 200, type |-> "unknown", message |-> "wrong-value"]
      [] OTHER ->
            [ok |-> FALSE, code |-> 0, type |-> "", message |-> ""]

\* The schemas the callers pass: z.object({code: z.literal(200),
\* type: z.literal("unknown"), message: z.literal("7")}) and the same with
\* message: z.string().
Schemas == {"messageLiteral", "messageString"}

\* expectedSchema.parse(value) accepts (TRUE) or throws a ZodError (FALSE).
SchemaAccepts(schema, json) ==
    /\ json.code = 200
    /\ json.type = "unknown"
    /\ \/ schema = "messageString"
       \/ schema = "messageLiteral" /\ json.message = "7"

\* The retryCount argument: passed with a value, or left out.
RetryPassed(n) == [passed |-> TRUE, value |-> n]
RetryOmitted == [passed |-> FALSE, value |-> 0]

\* The parameter without its default: an omitted retryCount stays undefined
\* and `i < undefined` is false, as with a bound of 0.
RetryCountWithoutDefault(a) == a.retryCount.value

\* The default parameter value: 5 when the caller passes no retryCount.
RetryCountOf(a) ==
    IF a.retryCount.passed THEN a.retryCount.value ELSE DefaultRetryCount

\* The values a caller passes on to the executor: query parameters and
\* headers (getAPI, both `{}` when omitted) and a request body (postAPI,
\* putAPI). A function reads only the ones in its parameter list.
EmptyInputs == [parameters |-> "{}", headers |-> "{}", requestBody |-> "{}"]
Inputs ==
    {EmptyInputs,
     [parameters |-> "{username}", headers |-> "{accept}", requestBody |-> "[user]"]}

\* The arguments of a call.
MakeArgs(api, url, code, schema, retry, inputs) ==
    [api |-> api, url |-> url, expectedStatusCode |-> code,
     expectedSchema |-> schema, retryCount |-> retry,
     parameters |-> inputs.parameters, headers |-> inputs.headers,
     requestBody |-> inputs.requestBody]

NoArgs == MakeArgs("", "", 0, "", RetryOmitted, EmptyInputs)

\* Argument values of the calls of Spec.
AllArgs ==
    {MakeArgs(api, url, code, schema, retry, inputs) :
        api \in Apis, url \in Urls, code \in ExpectedStatusCodes,
        schema \in Schemas, inputs \in Inputs,
        retry \in {RetryPassed(n) : n \in 0..MaxRetryCount} \cup {RetryOmitted}}

\* Argument values of the calls of ConcurrentSpec.
ConcurrentArgs ==
    {MakeArgs(api, "/user", 200, schema, RetryPassed(n), EmptyInputs) :
        api \in Apis, schema \in Schemas, n \in 1..MaxConcurrentRetryCount}

\* The options object each function hands to the executor with the url:
\* {params: parameters, headers: headers}, {data: requestBody}, or none.
Options(api) ==
    CASE api = "getAPI"    -> {"params", "headers"}
      [] api = "postAPI"   -> {"data"}
      [] api = "putAPI"    -> {"data"}
      [] api = "deleteAPI" -> {}

\* An option the function does not pass.
NotPassed == "undefined"

\* The request the executor is given.
Request(a) ==
    [method |-> HttpMethod(a.api), url |-> a.url, options |-> Options(a.api),
     params |-> IF "params" \in Options(a.api) THEN a.parameters ELSE NotPassed,
     headers |-> IF "headers" \in Options(a.api) THEN a.headers ELSE NotPassed,
     data |-> IF "data" \in Options(a.api) THEN a.requestBody ELSE NotPassed]

\* The APIResponse of the attempt-th request of a call.
Response(attempt, status) == [attempt |-> attempt, status |-> status]
NoResponse == Response(0, 0)

\* What the executor did with a request: answered with a status code, or
\* rejected (a network-level failure: the awaited request call throws).
Answered(status) == [settled |-> "response", status |-> status]
Rejected == [settled |-> "rejected", status |-> 0]

\* The line numbered by the loop counter itself: `Attempt ${i} failed...`.
DiagnosticZeroBased(k, url) == [attempt |-> k, url |-> url]

\* console.log(`Attempt ${i + 1} failed. Retrying for ${url}...`)
Diagnostic(k, url) == [attempt |-> k + 1, url |-> url]

\* One step of a call, in program order: the request of an attempt, its
\* response or rejection, its diagnostic, the call of response.json(), the
\* run of expectedSchema.parse, the return and the throw.
Ev(kind, attempt) == [kind |-> kind, attempt |-> attempt]

\* The results of a call: none yet, `return response`, or a thrown error.
NoResult == [kind |-> "none", error |-> "", response |-> NoResponse]
Returned(r) == [kind |-> "returned", error |-> "", response |-> r]
Threw(e) == [kind |-> "threw", error |-> e, response |-> NoResponse]

MaxRetriesError == "Max retries reached. API call failed."
ZodError == "ZodError"
SyntaxError == "SyntaxError"
NetworkError == "NetworkError"

(* ------------------------------- state --------------------------------- *)

VARIABLES
    pc,         \* pc[c]: "idle", "awaitRequest", "awaitJson" or "done"
    args,       \* args[c]: the arguments of call c
    i,          \* i[f]: the loop counter `let i` of activation frame f
    response,   \* response[c]: `const response` of the current iteration
    sent,       \* sent[c]: the requests call c gave the executor, in order
    outcomes,   \* outcomes[c]: what the executor did with each of them
    log,        \* log[c]: the diagnostic lines call c wrote, in order
    parsed,     \* parsed[c]: the attempts on which response.json() was called
    validated,  \* validated[c]: the attempts on which expectedSchema.parse ran
    body,       \* body[c]: the body text response.json() read
    result,     \* result[c]: what call c returned or threw
    events,     \* events[c]: the steps of call c so far, in program order
    users       \* the activation of createRandomUsersRequestBody

vars == <<pc, args, i, response, sent, outcomes, log, parsed, validated, body,
          result, events, users>>

\* createRandomUsersRequestBody before it is called.
NoUsers == [pc |-> "idle", amountOfUsers |-> 0, i |-> 0, usersArray |-> <<>>]

\* A counter declared outside the function: one cell for all calls.
SharedFrame(c) == "c1"

\* `let i` is local to one invocation: every call has its own counter.
Frame(c) == c

\* The comparison inverted, widened to every 5xx, and left out.
NeverMatches(r, a) == r.status # a.expectedStatusCode
ServerErrorMatches(r, a) == r.status = a.expectedStatusCode \/ r.status >= 500
AlwaysMatches(r, a) == TRUE

\* deleteAPI alone taking any answer for a match.
StatusMatchesExceptDelete(r, a) ==
    IF a.api = "deleteAPI" THEN TRUE ELSE r.status = a.expectedStatusCode

\* `response.status() === expectedStatusCode`
StatusMatches(r, a) == r.status = a.expectedStatusCode

\* The loop test off by one: `i <= retryCount`.
LoopConditionInclusive(k, n) == k <= n

\* `i < retryCount`
LoopCondition(k, n) == k < n

Init ==
    /\ pc = [c \in Calls |-> "idle"]
    /\ args = [c \in Calls |-> NoArgs]
    /\ i = [c \in Calls |-> 0]
    /\ response = [c \in Calls |-> NoResponse]
    /\ sent = [c \in Calls |-> <<>>]
    /\ outcomes = [c \in Calls |-> <<>>]
    /\ log = [c \in Calls |-> <<>>]
    /\ parsed = [c \in Calls |-> <<>>]
    /\ validated = [c \in Calls |-> <<>>]
    /\ body = [c \in Calls |-> NoBody]
    /\ result = [c \in Calls |-> NoResult]
    /\ events = [c \in Calls |-> <<>>]
    /\ users = NoUsers

\* As LoopHead, with the request of the next iteration started as well,
\* without waiting for the answer to this one.
LoopHeadFanOut(c, a, k, ev) ==
    /\ i' = [i EXCEPT ![Frame(c)] = k]
    /\ IF LoopCondition(k, RetryCountOf(a))
       THEN /\ sent' = [sent EXCEPT ![c] = @ \o <<Request(a), Request(a)>>]
            /\ events' = [events EXCEPT
                             ![c] = ev \o <<Ev("request", Len(sent[c]) + 1),
                                            Ev("request", Len(sent[c]) + 2)>>]
            /\ pc' = [pc EXCEPT ![c] = "awaitRequest"]
            /\ result' = result
       ELSE /\ sent' = sent
            /\ events' = [events EXCEPT ![c] = Append(ev, Ev("throw", Len(sent[c])))]
            /\ pc' = [pc EXCEPT ![c] = "done"]
            /\ result' = [result EXCEPT ![c] = Threw(MaxRetriesError)]

\* As LoopHead, with the options left out of every request after the first.
LoopHeadBareRetry(c, a, k, ev) ==
    /\ i' = [i EXCEPT ![Frame(c)] = k]
    /\ IF LoopCondition(k, RetryCountOf(a))
       THEN /\ sent' = [sent EXCEPT
                          ![c] = Append(@, IF k = 0 THEN Request(a)
                                           ELSE [Request(a) EXCEPT
                                                   !.params = NotPassed,
                                                   !.headers = NotPassed,
                                                   !.data = NotPassed])]
            /\ events' = [events EXCEPT
                             ![c] = Append(ev, Ev("request", Len(sent[c]) + 1))]
            /\ pc' = [pc EXCEPT ![c] = "awaitRequest"]
            /\ result' = result
       ELSE /\ sent' = sent
            /\ events' = [events EXCEPT ![c] = Append(ev, Ev("throw", Len(sent[c])))]
            /\ pc' = [pc EXCEPT ![c] = "done"]
            /\ result' = [result EXCEPT ![c] = Threw(MaxRetriesError)]

\* The head of the for loop with counter value k: the test `i < retryCount`,
\* then either the request of the next iteration (the call suspends at the
\* await) or, the loop left, `throw new Error("Max retries reached. ...")`.
\* ev: the steps of the call up to this pass of the loop head.
LoopHead(c, a, k, ev) ==
    /\ i' = [i EXCEPT ![Frame(c)] = k]
    /\ IF LoopCondition(k, RetryCountOf(a))
       THEN /\ sent' = [sent EXCEPT ![c] = Append(@, Request(a))]
            /\ events' = [events EXCEPT
                             ![c] = Append(ev, Ev("request", Len(sent[c]) + 1))]
            /\ pc' = [pc EXCEPT ![c] = "awaitRequest"]
            /\ result' = result
       ELSE /\ sent' = sent
            /\ events' = [events EXCEPT ![c] = Append(ev, Ev("throw", Len(sent[c])))]
            /\ pc' = [pc EXCEPT ![c] = "done"]
            /\ result' = [result EXCEPT ![c] = Threw(MaxRetriesError)]

\* A caller invokes one of the four functions with arguments a: `let i = 0`
\* and the first pass through the loop head.
Invoke(c, a) ==
    /\ pc[c] = "idle"
    /\ args' = [args EXCEPT ![c] = a]
    /\ LoopHead(c, a, 0, events[c])
    /\ UNCHANGED <<response, outcomes, log, parsed, validated, body, users>>

\* As StatusMatch, with the diagnostic line written before the status test.
StatusMatchLogged(c) ==
    /\ pc[c] = "awaitRequest"
    /\ \E s \in StatusCodes :
         LET r == Response(Len(sent[c]), s) IN
           /\ StatusMatches(r, args[c])
           /\ response' = [response EXCEPT ![c] = r]
           /\ outcomes' = [outcomes EXCEPT ![c] = Append(@, Answered(s))]
           /\ parsed' = [parsed EXCEPT ![c] = Append(@, r.attempt)]
           /\ log' = [log EXCEPT ![c] = Append(@, Diagnostic(i[Frame(c)], args[c].url))]
           /\ events' = [events EXCEPT
                            ![c] = @ \o <<Ev("response", r.attempt),
                                          Ev("diagnostic", r.attempt),
                                          Ev("json", r.attempt)>>]
           /\ pc' = [pc EXCEPT ![c] = "awaitJson"]
    /\ UNCHANGED <<args, i, sent, validated, body, result, users>>

\* The awaited request settles with a response whose status is the expected
\* one: the call calls response.json() and suspends at that await.
StatusMatch(c) ==
    /\ pc[c] = "awaitRequest"
    /\ \E s \in StatusCodes :
         LET r == Response(Len(sent[c]), s) IN
           /\ StatusMatches(r, args[c])
           /\ response' = [response EXCEPT ![c] = r]
           /\ outcomes' = [outcomes EXCEPT ![c] = Append(@, Answered(s))]
           /\ parsed' = [parsed EXCEPT ![c] = Append(@, r.attempt)]
           /\ events' = [events EXCEPT
                            ![c] = @ \o <<Ev("response", r.attempt),
                                          Ev("json", r.attempt)>>]
           /\ pc' = [pc EXCEPT ![c] = "awaitJson"]
    /\ UNCHANGED <<args, i, sent, log, validated, body, result, users>>

\* The awaited request settles with a response of another status: the
\* diagnostic line, `i++`, and the loop head again.
StatusMismatch(c) ==
    /\ pc[c] = "awaitRequest"
    /\ \E s \in StatusCodes :
         LET r == Response(Len(sent[c]), s) IN
           /\ ~StatusMatches(r, args[c])
           /\ response' = [response EXCEPT ![c] = r]
           /\ outcomes' = [outcomes EXCEPT ![c] = Append(@, Answered(s))]
           /\ log' = [log EXCEPT ![c] = Append(@, Diagnostic(i[Frame(c)], args[c].url))]
           /\ LoopHead(c, args[c], i[Frame(c)] + 1,
                       events[c] \o <<Ev("response", r.attempt),
                                      Ev("diagnostic", r.attempt)>>)
    /\ UNCHANGED <<args, parsed, validated, body, users>>

\* The awaited request rejects (DNS failure, connection reset, timeout):
\* nothing in the function catches it, the call ends with that error.
RequestRejects(c) ==
    /\ pc[c] = "awaitRequest"
    /\ outcomes' = [outcomes EXCEPT ![c] = Append(@, Rejected)]
    /\ pc' = [pc EXCEPT ![c] = "done"]
    /\ result' = [result EXCEPT ![c] = Threw(NetworkError)]
    /\ events' = [events EXCEPT
                     ![c] = @ \o <<Ev("rejected", Len(sent[c])),
                                   Ev("throw", Len(sent[c]))>>]
    /\ UNCHANGED <<args, i, response, sent, log, parsed, validated, body, users>>

\* As JsonRejects, with the SyntaxError caught and the attempt retried.
JsonRejectsRetried(c) ==
    /\ pc[c] = "awaitJson"
    /\ \E t \in BodyTexts :
         /\ ~JsonParse(t).ok
         /\ body' = [body EXCEPT ![c] = t]
    /\ log' = [log EXCEPT ![c] = Append(@, Diagnostic(i[Frame(c)], args[c].url))]
    /\ LoopHead(c, args[c], i[Frame(c)] + 1,
                Append(events[c], Ev("diagnostic", response[c].attempt)))
    /\ UNCHANGED <<args, response, outcomes, parsed, validated, users>>

\* response.json() rejects because the body is no JSON: the call ends with
\* the SyntaxError.
JsonRejects(c) ==
    /\ pc[c] = "awaitJson"
    /\ \E t \in BodyTexts :
         /\ ~JsonParse(t).ok
         /\ body' = [body EXCEPT ![c] = t]
    /\ pc' = [pc EXCEPT ![c] = "done"]
    /\ result' = [result EXCEPT ![c] = Threw(SyntaxError)]
    /\ events' = [events EXCEPT ![c] = Append(@, Ev("throw", response[c].attempt))]
    /\ UNCHANGED <<args, i, response, sent, outcomes, log, parsed, validated, users>>

\* As SchemaRejects, with the ZodError caught and the attempt retried.
SchemaRejectsRetried(c) ==
    /\ pc[c] = "awaitJson"
    /\ \E t \in BodyTexts :
         /\ JsonParse(t).ok
         /\ ~SchemaAccepts(args[c].expectedSchema, JsonParse(t))
         /\ body' = [body EXCEPT ![c] = t]
    /\ validated' = [validated EXCEPT ![c] = Append(@, response[c].attempt)]
    /\ log' = [log EXCEPT ![c] = Append(@, Diagnostic(i[Frame(c)], args[c].url))]
    /\ LoopHead(c, args[c], i[Frame(c)] + 1,
                events[c] \o <<Ev("validate", response[c].attempt),
                               Ev("diagnostic", response[c].attempt)>>)
    /\ UNCHANGED <<args, response, outcomes, parsed, users>>

\* response.json() resolves and expectedSchema.parse throws: the call ends
\* with the ZodError.
SchemaRejects(c) ==
    /\ pc[c] = "awaitJson"
    /\ \E t \in BodyTexts :
         /\ JsonParse(t).ok
         /\ ~SchemaAccepts(args[c].expectedSchema, JsonParse(t))
         /\ body' = [body EXCEPT ![c] = t]
    /\ validated' = [validated EXCEPT ![c] = Append(@, response[c].attempt)]
    /\ pc' = [pc EXCEPT ![c] = "done"]
    /\ result' = [result EXCEPT ![c] = Threw(ZodError)]
    /\ events' = [events EXCEPT
                     ![c] = @ \o <<Ev("validate", response[c].attempt),
                                   Ev("throw", response[c].attempt)>>]
    /\ UNCHANGED <<args, i, response, sent, outcomes, log, parsed, users>>

\* As ReturnResponse, with the `return response` missing: the iteration
\* falls through to the diagnostic and the next pass of the loop.
ReturnFallsThrough(c) ==
    /\ pc[c] = "awaitJson"
    /\ \E t \in BodyTexts :
         /\ JsonParse(t).ok
         /\ SchemaAccepts(args[c].expectedSchema, JsonParse(t))
         /\ body' = [body EXCEPT ![c] = t]
    /\ validated' = [validated EXCEPT ![c] = Append(@, response[c].attempt)]
    /\ log' = [log EXCEPT ![c] = Append(@, Diagnostic(i[Frame(c)], args[c].url))]
    /\ LoopHead(c, args[c], i[Frame(c)] + 1,
                events[c] \o <<Ev("validate", response[c].attempt),
                               Ev("diagnostic", response[c].attempt)>>)
    /\ UNCHANGED <<args, response, outcomes, parsed, users>>

\* As ReturnResponse, with the value expectedSchema.parse gives back returned
\* in place of the response: `return expectedSchema.parse(responseBodyJson)`.
ReturnParsedBody(c) ==
    /\ pc[c] = "awaitJson"
    /\ \E t \in BodyTexts :
         /\ JsonParse(t).ok
         /\ SchemaAccepts(args[c].expectedSchema, JsonParse(t))
         /\ body' = [body EXCEPT ![c] = t]
         /\ result' = [result EXCEPT
                         ![c] = Returned(Response(0, JsonParse(t).code))]
    /\ validated' = [validated EXCEPT ![c] = Append(@, response[c].attempt)]
    /\ pc' = [pc EXCEPT ![c] = "done"]
    /\ events' = [events EXCEPT
                     ![c] = @ \o <<Ev("validate", response[c].attempt),
                                   Ev("return", response[c].attempt)>>]
    /\ UNCHANGED <<args, i, response, sent, outcomes, log, parsed, users>>

\* response.json() resolves, expectedSchema.parse accepts: `return response`.
ReturnResponse(c) ==
    /\ pc[c] = "awaitJson"
    /\ \E t \in BodyTexts :
         /\ JsonParse(t).ok
         /\ SchemaAccepts(args[c].expectedSchema, JsonParse(t))
         /\ body' = [body EXCEPT ![c] = t]
    /\ validated' = [validated EXCEPT ![c] = Append(@, response[c].attempt)]
    /\ pc' = [pc EXCEPT ![c] = "done"]
    /\ result' = [result EXCEPT ![c] = Returned(response[c])]
    /\ events' = [events EXCEPT
                     ![c] = @ \o <<Ev("validate", response[c].attempt),
                                   Ev("return", response[c].attempt)>>]
    /\ UNCHANGED <<args, i, response, sent, outcomes, log, parsed, users>>

\* One call, any arguments.
Next ==
    \/ \E a \in AllArgs : Invoke("c1", a)
    \/ StatusMatch("c1")
    \/ StatusMismatch("c1")
    \/ RequestRejects("c1")
    \/ JsonRejects("c1")
    \/ SchemaRejects("c1")
    \/ ReturnResponse("c1")

Spec == Init /\ [][Next]_vars

\* One call, any arguments, against an executor that answers every request
\* (no request rejects).  The event loop resumes a call whose awaited
\* promise has settled, and a body read always settles.
CompletingNext ==
    \/ \E a \in AllArgs : Invoke("c1", a)
    \/ StatusMatch("c1")
    \/ StatusMismatch("c1")
    \/ JsonRejects("c1")
    \/ SchemaRejects("c1")
    \/ ReturnResponse("c1")

CompletingSpec ==
    /\ Init
    /\ [][CompletingNext]_vars
    /\ WF_vars(StatusMatch("c1") \/ StatusMismatch("c1"))
    /\ WF_vars(JsonRejects("c1") \/ SchemaRejects("c1") \/ ReturnResponse("c1"))

\* Several calls in progress at once, their resumptions interleaved in any
\* order.
ConcurrentNext ==
    \E c \in Calls :
        \/ \E a \in ConcurrentArgs : Invoke(c, a)
        \/ StatusMatch(c)
        \/ StatusMismatch(c)
        \/ RequestRejects(c)
        \/ JsonRejects(c)
        \/ SchemaRejects(c)
        \/ ReturnResponse(c)

ConcurrentSpec == Init /\ [][ConcurrentNext]_vars

\* ---- The 'Get user details' test: a retry loop written out in the test ----

\* `i < 5`: the bound of the loop of the test.
InlineRetryCount == 5

\* `${BASE_URL}/user/${username}`
InlineUrl == "/user/TestUserName-test-automation-delete-me"

\* request.get(url): a GET with no options object.
InlineRequest ==
    [method |-> "GET", url |-> InlineUrl, options |-> {},
     params |-> NotPassed, headers |-> NotPassed, data |-> NotPassed]

\* console.log(`Attempt ${i + 1} failed. Retrying...`): the line names no url.
InlineDiagnostic(k) == [attempt |-> k + 1, url |-> ""]

\* Body texts of the answers to GET /user/{username}: a user, the server's
\* error document, and a text that is no JSON.
UserBodyTexts == {"{id:7,username:TestUserName,...}",
                  "{code:1,type:error,message:User not found}",
                  "<html>"}

\* getUserResponse.json(), with the types of the fields the schema looks at.
UserJsonParse(text) ==
    CASE text = "{id:7,username:TestUserName,...}" ->
            [ok |-> TRUE, id |-> "number", username |-> "string"]
      [] text = "{code:1,type:error,message:User not found}" ->
            [ok |-> TRUE, id |-> "undefined", username |-> "undefined"]
      [] OTHER ->
            [ok |-> FALSE, id |-> "undefined", username |-> "undefined"]

\* expectedGetUserResponseSchema.parse: z.object({id: z.number(),
\* username: z.string(), ...}).
UserSchemaAccepts(json) == json.id = "number" /\ json.username = "string"

\* expect(received).toBe(expected) failing, and the test's passing.
ExpectError == "expect(received).toBe(expected)"
TestPassed == [kind |-> "passed", error |-> "", response |-> NoResponse]

\* The loop test off by one: `i <= 5`.
InlineLoopConditionInclusive(k) == k <= InlineRetryCount

\* `i < 5`
InlineLoopCondition(k) == k < InlineRetryCount

\* The head of the test's loop with counter k: the next request, or, the
\* loop left without a 200, expect(getUserResponse.status()).toBe(200) fails.
InlineLoopHead(k, ev) ==
    /\ i' = [i EXCEPT !["c1"] = k]
    /\ IF InlineLoopCondition(k)
       THEN /\ sent' = [sent EXCEPT !["c1"] = Append(@, InlineRequest)]
            /\ events' = [events EXCEPT
                             !["c1"] = Append(ev, Ev("request", Len(sent["c1"]) + 1))]
            /\ pc' = [pc EXCEPT !["c1"] = "awaitRequest"]
            /\ result' = result
       ELSE /\ sent' = sent
            /\ events' = [events EXCEPT
                             !["c1"] = Append(ev, Ev("throw", Len(sent["c1"])))]
            /\ pc' = [pc EXCEPT !["c1"] = "done"]
            /\ result' = [result EXCEPT !["c1"] = Threw(ExpectError)]

\* The test starts: `let i = 0` and the first request.
InlineStart ==
    /\ pc["c1"] = "idle"
    /\ InlineLoopHead(0, events["c1"])
    /\ UNCHANGED <<args, response, outcomes, log, parsed, validated, body, users>>

\* The request settles with status 200: break, the expect passes, and
\* getUserResponse.json() is called.
InlineStatusOk ==
    /\ pc["c1"] = "awaitRequest"
    /\ LET r == Response(Len(sent["c1"]), 200) IN
         /\ response' = [response EXCEPT !["c1"] = r]
         /\ outcomes' = [outcomes EXCEPT !["c1"] = Append(@, Answered(200))]
         /\ parsed' = [parsed EXCEPT !["c1"] = Append(@, r.attempt)]
         /\ events' = [events EXCEPT
                          !["c1"] = @ \o <<Ev("response", r.attempt),
                                           Ev("json", r.attempt)>>]
    /\ pc' = [pc EXCEPT !["c1"] = "awaitJson"]
    /\ UNCHANGED <<args, i, sent, log, validated, body, result, users>>

\* The request settles with another status: the line, `i++`, the loop head.
InlineStatusNot ==
    /\ pc["c1"] = "awaitRequest"
    /\ \E s \in StatusCodes \ {200} :
         LET r == Response(Len(sent["c1"]), s) IN
           /\ response' = [response EXCEPT !["c1"] = r]
           /\ outcomes' = [outcomes EXCEPT !["c1"] = Append(@, Answered(s))]
           /\ log' = [log EXCEPT !["c1"] = Append(@, InlineDiagnostic(i["c1"]))]
           /\ InlineLoopHead(i["c1"] + 1,
                             events["c1"] \o <<Ev("response", r.attempt),
                                               Ev("diagnostic", r.attempt)>>)
    /\ UNCHANGED <<args, parsed, validated, body, users>>

\* The awaited request rejects: the test fails with that error.
InlineRequestRejects ==
    /\ pc["c1"] = "awaitRequest"
    /\ outcomes' = [outcomes EXCEPT !["c1"] = Append(@, Rejected)]
    /\ pc' = [pc EXCEPT !["c1"] = "done"]
    /\ result' = [result EXCEPT !["c1"] = Threw(NetworkError)]
    /\ events' = [events EXCEPT
                     !["c1"] = @ \o <<Ev("rejected", Len(sent["c1"])),
                                      Ev("throw", Len(sent["c1"]))>>]
    /\ UNCHANGED <<args, i, response, sent, log, parsed, validated, body, users>>

\* getUserResponse.json() rejects: the test fails with the SyntaxError.
InlineJsonRejects ==
    /\ pc["c1"] = "awaitJson"
    /\ \E t \in UserBodyTexts :
         /\ ~UserJsonParse(t).ok
         /\ body' = [body EXCEPT !["c1"] = t]
    /\ pc' = [pc EXCEPT !["c1"] = "done"]
    /\ result' = [result EXCEPT !["c1"] = Threw(SyntaxError)]
    /\ events' = [events EXCEPT
                     !["c1"] = Append(@, Ev("throw", response["c1"].attempt))]
    /\ UNCHANGED <<args, i, response, sent, outcomes, log, parsed, validated, users>>

\* The schema rejects the parsed body: the test fails with the ZodError.
InlineSchemaRejects ==
    /\ pc["c1"] = "awaitJson"
    /\ \E t \in UserBodyTexts :
         /\ UserJsonParse(t).ok
         /\ ~UserSchemaAccepts(UserJsonParse(t))
         /\ body' = [body EXCEPT !["c1"] = t]
    /\ validated' = [validated EXCEPT !["c1"] = Append(@, response["c1"].attempt)]
    /\ pc' = [pc EXCEPT !["c1"] = "done"]
    /\ result' = [result EXCEPT !["c1"] = Threw(ZodError)]
    /\ events' = [events EXCEPT
                     !["c1"] = @ \o <<Ev("validate", response["c1"].attempt),
                                      Ev("throw", response["c1"].attempt)>>]
    /\ UNCHANGED <<args, i, response, sent, outcomes, log, parsed, users>>

\* The schema accepts the parsed body: the test body ends, the test passes.
InlinePass ==
    /\ pc["c1"] = "awaitJson"
    /\ \E t \in UserBodyTexts :
         /\ UserJsonParse(t).ok
         /\ UserSchemaAccepts(UserJsonParse(t))
         /\ body' = [body EXCEPT !["c1"] = t]
    /\ validated' = [validated EXCEPT !["c1"] = Append(@, response["c1"].attempt)]
    /\ pc' = [pc EXCEPT !["c1"] = "done"]
    /\ result' = [result EXCEPT !["c1"] = TestPassed]
    /\ events' = [events EXCEPT
                     !["c1"] = @ \o <<Ev("validate", response["c1"].attempt),
                                      Ev("return", response["c1"].attempt)>>]
    /\ UNCHANGED <<args, i, response, sent, outcomes, log, parsed, users>>

InlineNext ==
    \/ InlineStart
    \/ InlineStatusOk
    \/ InlineStatusNot
    \/ InlineRequestRejects
    \/ InlineJsonRejects
    \/ InlineSchemaRejects
    \/ InlinePass

InlineSpec == Init /\ [][InlineNext]_vars

\* ---- createRandomUsersRequestBody ----

\* faker.number.int({ min: 1, max: 100_000 }) and ({ min: 0, max: 10 })
UserIdMin == 1
UserIdMax == 100000
UserStatusMin == 0
UserStatusMax == 10

\* Values faker.number.int({min, max}) may give: an integer from min to max,
\* both included; the two ends and the middle stand for the range.
FakerInt(min, max) == {min, (min + max) \div 2, max}

\* The random values one user object is built from.
FakerPicks ==
    [id : FakerInt(UserIdMin, UserIdMax),
     userStatus : FakerInt(UserStatusMin, UserStatusMax)]

\* const userRequestBody = { id, username, ..., userStatus }
UserRequestBody(pick) ==
    [id |-> pick.id,
     username |-> "TestUserName-test-automation-delete-me-uuid",
     userStatus |-> pick.userStatus]

\* The loop test off by one: `i <= amountOfUsers`.
UsersLoopConditionInclusive(k, n) == k <= n

\* `i < amountOfUsers`
UsersLoopCondition(k, n) == k < n

\* The for loop from counter k on: one push per iteration, picks[k + 1] the
\* values faker gives in iteration k.
RECURSIVE UsersLoop(_, _, _, _)
UsersLoop(k, n, usersArray, picks) ==
    IF UsersLoopCondition(k, n)
    THEN UsersLoop(k + 1, n, Append(usersArray, UserRequestBody(picks[k + 1])), picks)
    ELSE [pc |-> "done", amountOfUsers |-> n, i |-> k, usersArray |-> usersArray]

\* createRandomUsersRequestBody(n): `const usersArray = []`, the loop, and
\* `return usersArray`; synchronous, no await in it.
CreateRandomUsersRequestBody(n) ==
    /\ users.pc = "idle"
    /\ \E picks \in [1..(MaxUsers + 1) -> FakerPicks] :
         users' = UsersLoop(0, n, <<>>, picks)
    /\ UNCHANGED <<pc, args, i, response, sent, outcomes, log, parsed,
                   validated, body, result, events>>

UsersNext == \E n \in -1..MaxUsers : CreateRandomUsersRequestBody(n)

UsersSpec == Init /\ [][UsersNext]_vars

(* ------------------------ vocabulary of the claims --------------------- *)

\* The attempt bound N of call c.
Bound(c) == RetryCountOf(args[c])

\* The executor answered request k of call c with the expected status code.
Expected(c, k) ==
    /\ outcomes[c][k].settled = "response"
    /\ outcomes[c][k].status = args[c].expectedStatusCode

\* The executor answered request k of call c with another status code.
Mismatched(c, k) ==
    /\ outcomes[c][k].settled = "response"
    /\ outcomes[c][k].status # args[c].expectedStatusCode

\* Attempt k is the first one answered with the expected status code.
FirstMatch(c, k) ==
    /\ k \in 1..Len(outcomes[c])
    /\ Expected(c, k)
    /\ \A j \in 1..(k - 1) : ~Expected(c, j)

\* The body that was read is JSON / is JSON the schema accepts.
BodyParses(c) == body[c] # NoBody /\ JsonParse(body[c]).ok
BodyValid(c) ==
    BodyParses(c) /\ SchemaAccepts(args[c].expectedSchema, JsonParse(body[c]))

(* -------------------------------- claims ------------------------------- *)

\* C1 as stated: whenever the executor answers with the expected status code
\* for the first time on attempt k <= N, the finished call has succeeded: it
\* returned the response of attempt k after exactly k requests.
C1_SuccessOnAnyMatch ==
    \A c \in Calls : \A k \in 1..Len(outcomes[c]) :
        (Bound(c) >= 1 /\ FirstMatch(c, k) /\ pc[c] = "done")
            => /\ result[c] = Returned(Response(k, args[c].expectedStatusCode))
               /\ Len(sent[c]) = k

\* C1, amended: when the executor answers with the expected status code for
\* the first time on attempt k, then k <= N, exactly k requests have been
\* issued and none is issued afterwards (in every later state, whatever the
\* body); and if the body read parses and satisfies the schema, the finished
\* call has returned the response object of attempt k.
C1_StopsAtFirstMatch ==
    \A c \in Calls : \A k \in 1..Len(outcomes[c]) :
        (Bound(c) >= 1 /\ FirstMatch(c, k))
            => /\ k <= Bound(c)
               /\ Len(sent[c]) = k
               /\ Len(outcomes[c]) = k
               /\ pc[c] \in {"awaitJson", "done"}
               /\ (pc[c] = "done" /\ BodyValid(c))
                    => result[c] = Returned(Response(k, args[c].expectedStatusCode))

\* Expected status 200, default bound 5; 500 on attempts 1-2, 200 with a body
\* satisfying the schema on attempt 3: the call returned the third response.
C1_Witness ==
    /\ pc["c1"] = "done"
    /\ ~args["c1"].retryCount.passed
    /\ args["c1"].expectedStatusCode = 200
    /\ args["c1"].expectedSchema = "messageLiteral"
    /\ outcomes["c1"] = <<Answered(500), Answered(500), Answered(200)>>
    /\ result["c1"] = Returned(Response(3, 200))
    /\ Len(sent["c1"]) = 3
    /\ Len(log["c1"]) = 2

\* C2: for every bound N >= 1, N requests all answered with a status other
\* than the expected one end the call with the exhaustion error after exactly
\* N requests; and the exhaustion error is raised only then: a call that
\* threw it issued exactly N requests, all answered with another status.
C2_Exhaustion ==
    \A c \in Calls :
        (pc[c] # "idle" /\ Bound(c) >= 1)
            => /\ (/\ Len(outcomes[c]) = Bound(c)
                   /\ \A k \in 1..Bound(c) : Mismatched(c, k))
                    => /\ pc[c] = "done"
                       /\ result[c] = Threw(MaxRetriesError)
                       /\ Len(sent[c]) = Bound(c)
               /\ result[c] = Threw(MaxRetriesError)
                    => /\ pc[c] = "done"
                       /\ Len(sent[c]) = Bound(c)
                       /\ Len(outcomes[c]) = Bound(c)
                       /\ \A k \in 1..Bound(c) : Mismatched(c, k)

\* A call with retryCount 3 whose three requests were answered 404, 500, 404
\* while 200 was expected: exhausted after three requests.
C2_Witness ==
    /\ args["c1"].retryCount = RetryPassed(3)
    /\ args["c1"].expectedStatusCode = 200
    /\ outcomes["c1"] = <<Answered(404), Answered(500), Answered(404)>>
    /\ result["c1"] = Threw(MaxRetriesError)
    /\ Len(sent["c1"]) = 3

\* C3: when the status code matched on attempt k and the body read fails the
\* schema, the call has ended with the validation error, k requests were
\* issued, and the failure was neither retried (no request k+1, no
\* diagnostic for attempt k) nor reported as exhaustion.
C3_SchemaFailureIsFatal ==
    \A c \in Calls :
        (BodyParses(c) /\ ~BodyValid(c))
            => /\ pc[c] = "done"
               /\ result[c] = Threw(ZodError)
               /\ Len(parsed[c]) = 1
               /\ LET k == parsed[c][1] IN
                    /\ FirstMatch(c, k)
                    /\ Len(sent[c]) = k
                    /\ Len(outcomes[c]) = k
                    /\ Len(log[c]) = k - 1
                    /\ validated[c] = <<k>>

\* The status matched on attempt 2 of 3 and the body carried the wrong
\* message literal.
C3_Witness ==
    /\ args["c1"].retryCount = RetryPassed(3)
    /\ args["c1"].expectedSchema = "messageLiteral"
    /\ outcomes["c1"] = <<Answered(500), Answered(200)>>
    /\ body["c1"] = "{code:200,type:unknown,message:wrong-value}"
    /\ result["c1"] = Threw(ZodError)
    /\ Len(sent["c1"]) = 2

\* The attempts of call c answered with a status other than the expected one.
MismatchedAttempts(c) == {k \in 1..Len(outcomes[c]) : Mismatched(c, k)}

\* C4: in every reachable state the diagnostics of a call are one line for
\* each attempt answered with a non-matching status and none for any other
\* attempt: k-1 lines when the call succeeds on attempt k, N on exhaustion.
C4_OneDiagnosticPerMismatch ==
    \A c \in Calls :
        /\ Len(log[c]) = Cardinality(MismatchedAttempts(c))
        /\ {log[c][j].attempt : j \in 1..Len(log[c])} = MismatchedAttempts(c)
        /\ result[c].kind = "returned" => Len(log[c]) = result[c].response.attempt - 1
        /\ (result[c] = Threw(MaxRetriesError) /\ Bound(c) >= 0)
              => Len(log[c]) = Bound(c)

\* Two mismatches then a success on attempt 3: two lines, none for attempt 3.
C4_Witness ==
    /\ result["c1"].kind = "returned"
    /\ result["c1"].response.attempt = 3
    /\ Len(log["c1"]) = 2
    /\ args["c1"].api = "putAPI"

\* C5: a call of any of the four functions made without a retry count never
\* issues more than 5 requests, and when none of its requests is answered
\* with the expected status it ends with the exhaustion error after exactly
\* 5 requests.
C5_DefaultBoundIsFive ==
    \A c \in Calls :
        (pc[c] # "idle" /\ ~args[c].retryCount.passed)
            => /\ Len(sent[c]) <= 5
               /\ result[c] = Threw(MaxRetriesError) => Len(sent[c]) = 5
               /\ (/\ Len(outcomes[c]) = 5
                   /\ \A k \in 1..5 : Mismatched(c, k))
                    => result[c] = Threw(MaxRetriesError)
               /\ (/\ pc[c] = "done"
                   /\ \A k \in 1..Len(outcomes[c]) : Mismatched(c, k))
                    => Len(sent[c]) = 5

\* deleteAPI called without a retry count, 404 on all five attempts.
C5_Witness ==
    /\ args["c1"].api = "deleteAPI"
    /\ ~args["c1"].retryCount.passed
    /\ outcomes["c1"] = <<Answered(404), Answered(404), Answered(404),
                          Answered(404), Answered(404)>>
    /\ result["c1"] = Threw(MaxRetriesError)
    /\ Len(sent["c1"]) = 5
    /\ Len(log["c1"]) = 5

\* C6 as stated: every started call has an attempt bound of at least 1, and
\* no call is in a terminal state without having issued a request.
C6_AtLeastOneAttempt ==
    \A c \in Calls :
        /\ pc[c] # "idle" => Bound(c) >= 1
        /\ pc[c] = "done" => Len(sent[c]) >= 1

\* C7 as stated: every attempt that does not produce the expected status
\* code, a rejected request included, has its diagnostic and is followed by
\* the next request while attempts remain and by the exhaustion error
\* otherwise.
C7_EveryFailureRetried ==
    \A c \in Calls : \A k \in 1..Len(outcomes[c]) :
        ~Expected(c, k)
            => /\ Len(log[c]) >= k
               /\ log[c][k] = Diagnostic(k - 1, args[c].url)
               /\ IF k < Bound(c)
                  THEN Len(sent[c]) >= k + 1
                  ELSE result[c] = Threw(MaxRetriesError)

\* C7, amended: an attempt answered with a status code other than the
\* expected one is handled the same way whatever the code (4xx or 5xx): one
\* diagnostic, then the next request while attempts remain and the
\* exhaustion error otherwise.  A network-level failure (the request call
\* throwing) on attempt k is not retried: the call ends with that error
\* after k requests, with no diagnostic for attempt k.
C7_StatusMismatchRetriedRejectionFatal ==
    \A c \in Calls : \A k \in 1..Len(outcomes[c]) :
        /\ Mismatched(c, k)
            => /\ Len(log[c]) >= k
               /\ log[c][k] = Diagnostic(k - 1, args[c].url)
               /\ IF k < Bound(c)
                  THEN Len(sent[c]) >= k + 1
                  ELSE /\ result[c] = Threw(MaxRetriesError)
                       /\ Len(sent[c]) = k
        /\ outcomes[c][k] = Rejected
            => /\ pc[c] = "done"
               /\ result[c] = Threw(NetworkError)
               /\ Len(sent[c]) = k
               /\ Len(outcomes[c]) = k
               /\ Len(log[c]) = k - 1

\* A 4xx and a 5xx each had their diagnostic and their retry; the third
\* request was rejected and ended the call.
C7_Witness ==
    /\ outcomes["c1"] = <<Answered(404), Answered(500), Rejected>>
    /\ args["c1"].expectedStatusCode = 200
    /\ Bound("c1") = 5
    /\ Len(log["c1"]) = 2
    /\ result["c1"] = Threw(NetworkError)

\* C8: response.json() and expectedSchema.parse run at most once per call,
\* and only on an attempt answered with the expected status code: no attempt
\* answered with another status is ever parsed or validated.
C8_ParseOnlyOnMatch ==
    \A c \in Calls :
        /\ Len(parsed[c]) <= 1
        /\ Len(validated[c]) <= 1
        /\ \A j \in 1..Len(parsed[c]) :
             /\ parsed[c][j] \in 1..Len(outcomes[c])
             /\ Expected(c, parsed[c][j])
        /\ \A j \in 1..Len(validated[c]) :
             /\ Len(parsed[c]) = 1
             /\ validated[c][j] = parsed[c][1]
        /\ \A k \in MismatchedAttempts(c) :
             /\ \A j \in 1..Len(parsed[c]) : parsed[c][j] # k
             /\ \A j \in 1..Len(validated[c]) : validated[c][j] # k
        /\ (body[c] # NoBody) => Len(parsed[c]) = 1

\* Two attempts answered 500 went unparsed; the third, answered with the
\* expected 404, was parsed and validated once.
C8_Witness ==
    /\ args["c1"].expectedStatusCode = 404
    /\ outcomes["c1"] = <<Answered(500), Answered(500), Answered(404)>>
    /\ parsed["c1"] = <<3>>
    /\ validated["c1"] = <<3>>
    /\ pc["c1"] = "done"

\* The state of a call in the words of the state machine: ATTEMPTING until it
\* ends, then SUCCEEDED (status matched, schema valid), FAILED (status
\* matched, schema invalid), EXHAUSTED (all attempts consumed without a
\* status match), or the end of a call by a body that is no JSON or by a
\* rejected request.
CallState(c) ==
    CASE pc[c] = "idle" -> "NOT_STARTED"
      [] pc[c] \in {"awaitRequest", "awaitJson"} -> "ATTEMPTING"
      [] pc[c] = "done" /\ result[c].kind = "returned" -> "SUCCEEDED"
      [] pc[c] = "done" /\ result[c] = Threw(ZodError) -> "FAILED"
      [] pc[c] = "done" /\ result[c] = Threw(MaxRetriesError) -> "EXHAUSTED"
      [] pc[c] = "done" /\ result[c] = Threw(SyntaxError) -> "BODY_UNPARSABLE"
      [] pc[c] = "done" /\ result[c] = Threw(NetworkError) -> "REQUEST_REJECTED"
      [] OTHER -> "UNKNOWN"

\* The last request of call c was answered with the expected status code.
MatchedLast(c) ==
    /\ Len(outcomes[c]) >= 1
    /\ FirstMatch(c, Len(outcomes[c]))
    /\ Len(sent[c]) = Len(outcomes[c])

\* C9 as stated (its safety half): against an executor that answers every
\* request, a finished call is in one of SUCCEEDED, FAILED, EXHAUSTED.
C9_ThreeTerminalStates ==
    \A c \in Calls :
        pc[c] = "done" => CallState(c) \in {"SUCCEEDED", "FAILED", "EXHAUSTED"}

\* A finished call is in exactly the terminal state its run determines.
TerminalClassified ==
    \A c \in Calls :
        pc[c] = "done" =>
            /\ CallState(c) \in {"SUCCEEDED", "FAILED", "EXHAUSTED", "BODY_UNPARSABLE"}
            /\ CallState(c) = "SUCCEEDED" <=> (MatchedLast(c) /\ BodyValid(c))
            /\ CallState(c) = "FAILED"
                 <=> (MatchedLast(c) /\ BodyParses(c) /\ ~BodyValid(c))
            /\ CallState(c) = "BODY_UNPARSABLE"
                 <=> (MatchedLast(c) /\ body[c] # NoBody /\ ~BodyParses(c))
            /\ CallState(c) = "EXHAUSTED"
                 <=> /\ \A k \in 1..Len(outcomes[c]) : Mismatched(c, k)
                     /\ Len(outcomes[c]) = Len(sent[c])
                     /\ ~(Len(sent[c]) < Bound(c))

\* A finished call stays as it is: no request, no diagnostic, same result.
TerminalAbsorbing ==
    \A c \in Calls :
        pc[c] = "done" =>
            /\ pc'[c] = "done"
            /\ sent'[c] = sent[c]
            /\ log'[c] = log[c]
            /\ result'[c] = result[c]
            /\ outcomes'[c] = outcomes[c]

\* C9, amended: provided the executor answers every request, every started
\* call eventually reaches exactly one of four terminal states: SUCCEEDED
\* (status matched, schema valid), FAILED (status matched, schema invalid),
\* EXHAUSTED (all attempts consumed without a status match) or
\* BODY_UNPARSABLE (status matched, body is no JSON, the call ends with the
\* parse error); the terminal states are absorbing: after one is reached the
\* call issues no request and emits no diagnostic.
C9_FourTerminalStates ==
    /\ \A c \in Calls : [](pc[c] # "idle" => <>(pc[c] = "done"))
    /\ []TerminalClassified
    /\ [][TerminalAbsorbing]_vars

\* A call that ended on its second attempt with a body that is no JSON.
C9_Witness ==
    /\ CallState("c1") = "BODY_UNPARSABLE"
    /\ outcomes["c1"] = <<Answered(500), Answered(200)>>
    /\ body["c1"] = "<html>"
    /\ Len(sent["c1"]) = 2

\* One of the four functions run alone on the answers outs and the body text b, from
\* the loop head with counter k and diagnostics lg: where the call stands,
\* its result, the number of its requests and its diagnostics.
RECURSIVE RunAlone(_, _, _, _, _)
RunAlone(a, outs, b, k, lg) ==
    IF ~(k < RetryCountOf(a))
    THEN [pc |-> "done", result |-> Threw(MaxRetriesError), requests |-> k, log |-> lg]
    ELSE IF Len(outs) < k + 1
    THEN [pc |-> "awaitRequest", result |-> NoResult, requests |-> k + 1, log |-> lg]
    ELSE IF outs[k + 1].settled = "rejected"
    THEN [pc |-> "done", result |-> Threw(NetworkError), requests |-> k + 1, log |-> lg]
    ELSE IF outs[k + 1].status # a.expectedStatusCode
    THEN RunAlone(a, outs, b, k + 1, Append(lg, Diagnostic(k, a.url)))
    ELSE IF b = NoBody
    THEN [pc |-> "awaitJson", result |-> NoResult, requests |-> k + 1, log |-> lg]
    ELSE IF ~JsonParse(b).ok
    THEN [pc |-> "done", result |-> Threw(SyntaxError), requests |-> k + 1, log |-> lg]
    ELSE IF ~SchemaAccepts(a.expectedSchema, JsonParse(b))
    THEN [pc |-> "done", result |-> Threw(ZodError), requests |-> k + 1, log |-> lg]
    ELSE [pc |-> "done", result |-> Returned(Response(k + 1, outs[k + 1].status)),
          requests |-> k + 1, log |-> lg]

\* C10: with calls interleaved at every await, where each call stands, its
\* result, the number of its requests and its diagnostics are those of the
\* same call run alone on its own arguments and on the answers to its own
\* requests.
C10_InterleavingIndependence ==
    \A c \in Calls :
        pc[c] # "idle" =>
            [pc |-> pc[c], result |-> result[c], requests |-> Len(sent[c]),
             log |-> log[c]]
                = RunAlone(args[c], outcomes[c], body[c], 0, <<>>)

\* Both calls in progress at once, each after a failed first attempt: one
\* suspended at the body read, the other at its second request.
C10_Witness ==
    /\ pc["c1"] = "awaitJson"
    /\ pc["c2"] = "awaitRequest"
    /\ Len(log["c1"]) = 1
    /\ Len(log["c2"]) = 1
    /\ args["c1"].api # args["c2"].api

\* The requests of call c the executor has not settled yet.
InFlight(c) == Len(sent[c]) - Len(outcomes[c])

\* C11: within one call at most one request is in flight at any time, and
\* request j+1 is issued only after request j, its response, which did not
\* match, and the diagnostic of attempt j, in that order.
C11_AttemptsSequential ==
    \A c \in Calls :
        /\ InFlight(c) \in {0, 1}
        /\ InFlight(c) = 1 <=> pc[c] = "awaitRequest"
        /\ Len(sent[c]) = Cardinality({p \in 1..Len(events[c]) :
                                          events[c][p].kind = "request"})
        /\ \A p \in 1..Len(events[c]) :
             events[c][p].kind = "request" =>
                LET n == events[c][p].attempt IN
                  IF n = 1
                  THEN p = 1
                  ELSE /\ p >= 4
                       /\ events[c][p - 3] = Ev("request", n - 1)
                       /\ events[c][p - 2] = Ev("response", n - 1)
                       /\ events[c][p - 1] = Ev("diagnostic", n - 1)
                       /\ Mismatched(c, n - 1)

\* The third request of a call is in flight, after two answered attempts.
C11_Witness ==
    /\ pc["c1"] = "awaitRequest"
    /\ Len(sent["c1"]) = 3
    /\ Len(outcomes["c1"]) = 2
    /\ events["c1"][Len(events["c1"])] = Ev("request", 3)

\* The requests of attempt n among the steps of call c.
RequestsOfAttempt(c, n) ==
    {p \in 1..Len(events[c]) : events[c][p] = Ev("request", n)}

\* C12: in every reachable state of a call with attempt bound N the number
\* of requests issued so far is at most N, however the call ends; every
\* attempt issued exactly one request, so the requests are as many as the
\* attempts answered or rejected plus the one in flight.
C12_RequestsWithinBound ==
    \A c \in Calls :
        pc[c] # "idle" =>
            /\ Len(sent[c]) <= Bound(c)
            /\ Len(outcomes[c]) <= Len(sent[c])
            /\ Len(sent[c]) <= Len(outcomes[c]) + 1
            /\ Len(log[c]) <= Len(sent[c])
            /\ \A n \in 1..Len(sent[c]) : Cardinality(RequestsOfAttempt(c, n)) = 1
            /\ pc[c] \in {"awaitRequest", "awaitJson"} => Len(sent[c]) = i[c] + 1

\* A call with retryCount 3 that succeeded on its last attempt: 3 requests.
C12_Witness ==
    /\ args["c1"].retryCount = RetryPassed(3)
    /\ Len(sent["c1"]) = 3
    /\ result["c1"].kind = "returned"

\* What a call returned is the response of its last, matching attempt.
ReturnsMatchingResponse ==
    \A c \in Calls :
        result[c].kind = "returned" =>
            LET k == Len(outcomes[c]) IN
              /\ k >= 1
              /\ k = Len(sent[c])
              /\ FirstMatch(c, k)
              /\ result[c].response = Response(k, outcomes[c][k].status)
              /\ result[c].response = response[c]
              /\ BodyValid(c)

\* Reading and validating the body leaves the response and the body alone.
ValidationTransformsNothing ==
    \A c \in Calls :
        /\ pc[c] = "awaitJson" => response'[c] = response[c]
        /\ body[c] # NoBody => body'[c] = body[c]
        /\ result[c].kind = "returned" => result'[c] = result[c]

\* C13: on success the value returned is the response object the executor
\* gave on the matching attempt, unchanged: validation only accepts or
\* rejects the parsed body and replaces neither the response nor its body,
\* and the response of an earlier, non-matching attempt is never returned.
C13_ResponseReturnedUnchanged ==
    /\ []ReturnsMatchingResponse
    /\ [][ValidationTransformsNothing]_vars

\* putAPI returned the response of its third attempt after two mismatches.
C13_Witness ==
    /\ args["c1"].api = "putAPI"
    /\ outcomes["c1"] = <<Answered(404), Answered(500), Answered(200)>>
    /\ result["c1"] = Returned(Response(3, 200))
    /\ response["c1"] = Response(3, 200)

\* What the schema of a call says of the body it read.
SchemaVerdict(c) ==
    IF body[c] = NoBody THEN "unread"
    ELSE IF ~BodyParses(c) THEN "unparsable"
    ELSE IF BodyValid(c) THEN "accepted"
    ELSE "rejected"

\* Two calls were given the same bound, expected status and url, received the
\* same executor outcomes and the same verdict on the body.
SameInputs(c, d) ==
    /\ pc[c] # "idle"
    /\ pc[d] # "idle"
    /\ Bound(c) = Bound(d)
    /\ args[c].expectedStatusCode = args[d].expectedStatusCode
    /\ args[c].url = args[d].url
    /\ outcomes[c] = outcomes[d]
    /\ SchemaVerdict(c) = SchemaVerdict(d)

EventAt(c, kind, n) ==
    LET ps == {p \in 1..Len(events[c]) : events[c][p] = Ev(kind, n)}
    IN  IF ps = {} THEN 0 ELSE CHOOSE p \in ps : \A q \in ps : p <= q

\* C15: the diagnostics of a call carry the 1-based attempt numbers 1, 2, 3,
\* ... in increasing order with no gap and no repeat, each with the call's
\* url: the j-th diagnostic is the one for attempt j, emitted after the
\* response of attempt j and before request j+1, or before the exhaustion
\* error when j is the bound.
C15_DiagnosticsNumberedInOrder ==
    \A c \in Calls :
        /\ \A j \in 1..Len(log[c]) :
             /\ log[c][j] = [attempt |-> j, url |-> args[c].url]
             /\ Mismatched(c, j)
             /\ EventAt(c, "response", j) > 0
             /\ EventAt(c, "diagnostic", j) = EventAt(c, "response", j) + 1
             /\ IF j < Bound(c)
                THEN events[c][EventAt(c, "diagnostic", j) + 1] = Ev("request", j + 1)
                ELSE /\ events[c][EventAt(c, "diagnostic", j) + 1] = Ev("throw", j)
                     /\ result[c] = Threw(MaxRetriesError)
        /\ Len(log[c]) =
             Cardinality({p \in 1..Len(events[c]) : events[c][p].kind = "diagnostic"})

\* Three diagnostics, numbered 1, 2, 3, the last one followed by exhaustion.
C15_Witness ==
    /\ Bound("c1") = 3
    /\ Len(log["c1"]) = 3
    /\ log["c1"][3] = [attempt |-> 3, url |-> args["c1"].url]
    /\ events["c1"][Len(events["c1"])] = Ev("throw", 3)
    /\ result["c1"] = Threw(MaxRetriesError)

\* A step in which call c received an answer of another status.
NonMatchingAttempt(c) ==
    /\ Len(outcomes'[c]) = Len(outcomes[c]) + 1
    /\ outcomes'[c][Len(outcomes'[c])].settled = "response"
    /\ outcomes'[c][Len(outcomes'[c])].status # args[c].expectedStatusCode

\* Every request of a call is the request built from the call's arguments.
SameRequestEveryAttempt ==
    \A c \in Calls : \A j \in 1..Len(sent[c]) :
        /\ sent[c][j] = Request(args[c])
        /\ sent[c][j] = sent[c][1]

\* A call's arguments stay as passed, and a non-matching attempt touches the
\* counter, the diagnostics and the request of the next attempt only.
AttemptsKeepInputs ==
    \A c \in Calls :
        /\ pc[c] # "idle" => args'[c] = args[c]
        /\ NonMatchingAttempt(c) =>
             /\ i'[c] = i[c] + 1
             /\ log'[c] = Append(log[c], [attempt |-> i[c] + 1, url |-> args[c].url])
             /\ sent'[c] \in {sent[c], Append(sent[c], sent[c][1])}
             /\ <<parsed'[c], validated'[c], body'[c]>> = <<parsed[c], validated[c], body[c]>>
             /\ \A d \in Calls \ {c} : CallState(d)' = CallState(d)

\* C16: every attempt of one call is issued with the same request inputs: the
\* url, query parameters, headers, request body, expected status code and
\* schema used on attempt j+1 are those used on attempt 1; a non-matching
\* attempt changes nothing but the attempt counter and the diagnostic output.
C16_SameInputsEveryAttempt ==
    /\ []SameRequestEveryAttempt
    /\ [][AttemptsKeepInputs]_vars

\* A third getAPI request with the query parameters and headers of the first,
\* after two non-matching attempts.
C16_Witness ==
    /\ args["c1"].api = "getAPI"
    /\ args["c1"].parameters = "{username}"
    /\ Len(sent["c1"]) = 3
    /\ Len(log["c1"]) = 2
    /\ sent["c1"][3].params = "{username}"
    /\ sent["c1"][3].headers = "{accept}"
    /\ pc["c1"] = "awaitRequest"

\* C17: when the status code matched on attempt k and the body cannot be
\* parsed as structured data (response.json() fails), the call has ended with
\* that parse error after exactly k requests: the failure was not retried,
\* emitted no diagnostic, and is reported neither as exhaustion nor as
\* success.
C17_ParseFailureIsFatal ==
    \A c \in Calls :
        (body[c] # NoBody /\ ~BodyParses(c))
            => /\ pc[c] = "done"
               /\ result[c] = Threw(SyntaxError)
               /\ result[c] # Threw(MaxRetriesError)
               /\ result[c].kind # "returned"
               /\ Len(parsed[c]) = 1
               /\ LET k == parsed[c][1] IN
                    /\ FirstMatch(c, k)
                    /\ Len(sent[c]) = k
                    /\ Len(outcomes[c]) = k
                    /\ Len(log[c]) = k - 1
                    /\ \A j \in 1..Len(log[c]) : log[c][j].attempt # k
                    /\ validated[c] = <<>>
                    /\ events[c][Len(events[c])] = Ev("throw", k)
                    /\ events[c][Len(events[c]) - 1] = Ev("json", k)

\* deleteAPI, bound 3: the status matched on attempt 2 and the body was no
\* JSON.
C17_Witness ==
    /\ args["c1"].api = "deleteAPI"
    /\ args["c1"].retryCount = RetryPassed(3)
    /\ outcomes["c1"] = <<Answered(500), Answered(200)>>
    /\ body["c1"] # NoBody
    /\ ~JsonParse(body["c1"]).ok
    /\ result["c1"] = Threw(SyntaxError)
    /\ Len(sent["c1"]) = 2
    /\ Len(log["c1"]) = 1

\* getAPI called for the url of the test with expected status 200 and a
\* retryCount of 5.
InlineAsGetAPI ==
    MakeArgs("getAPI", InlineUrl, 200, "messageString",
             RetryPassed(InlineRetryCount), EmptyInputs)

\* getAPI run alone on the answers the test's loop received, up to the read
\* of the body.
AsGetAPI == RunAlone(InlineAsGetAPI, outcomes["c1"], NoBody, 0, <<>>)

\* C18: the loop of the 'Get user details' test behaves like getAPI with
\* bound 5 and expected status 200 in its requests and diagnostics: at most 5
\* GET requests, none after the first response with status 200, one line per
\* non-200 attempt, the test failing when none of the 5 responses has status
\* 200, and the body schema applied only after a 200 response.
C18_InlineLoopLikeGetAPI ==
    /\ Len(sent["c1"]) <= 5
    /\ \A j \in 1..Len(sent["c1"]) : sent["c1"][j].method = "GET"
    /\ \A j \in 1..Len(outcomes["c1"]) :
         (outcomes["c1"][j] = Answered(200)) => j = Len(sent["c1"])
    /\ Len(log["c1"]) =
         Cardinality({j \in 1..Len(outcomes["c1"]) :
                        /\ outcomes["c1"][j].settled = "response"
                        /\ outcomes["c1"][j].status # 200})
    /\ \A j \in 1..Len(log["c1"]) : log["c1"][j].attempt = j
    /\ (/\ Len(outcomes["c1"]) = 5
        /\ \A j \in 1..5 : /\ outcomes["c1"][j].settled = "response"
                           /\ outcomes["c1"][j].status # 200)
         => (pc["c1"] = "done" /\ result["c1"] = Threw(ExpectError))
    /\ result["c1"] = Threw(ExpectError) => Len(outcomes["c1"]) = 5
    /\ (validated["c1"] # <<>> \/ body["c1"] # NoBody) =>
         outcomes["c1"][Len(outcomes["c1"])] = Answered(200)
    /\ pc["c1"] # "idle" =>
         /\ Len(sent["c1"]) = AsGetAPI.requests
         /\ Len(log["c1"]) = Len(AsGetAPI.log)
         /\ \A j \in 1..Len(log["c1"]) : log["c1"][j].attempt = AsGetAPI.log[j].attempt
         /\ AsGetAPI.pc = "awaitRequest" <=> pc["c1"] = "awaitRequest"
         /\ AsGetAPI.pc = "awaitJson" <=>
              (pc["c1"] = "awaitJson" \/ body["c1"] # NoBody)
         /\ AsGetAPI.result = Threw(MaxRetriesError) <=>
              result["c1"] = Threw(ExpectError)
         /\ AsGetAPI.result = Threw(NetworkError) <=>
              result["c1"] = Threw(NetworkError)

\* The fifth request answered 500 after four other non-200 answers: five
\* lines, and the test failed at the expect.
C18_Witness ==
    /\ Len(sent["c1"]) = 5
    /\ Len(outcomes["c1"]) = 5
    /\ sent["c1"][5] = InlineRequest
    /\ outcomes["c1"][5] = Answered(500)
    /\ Len(log["c1"]) = 5
    /\ result["c1"] = Threw(ExpectError)

\* A 200 on the third request: two lines, the schema applied, the test passed.
C18_WitnessPassed ==
    /\ outcomes["c1"] = <<Answered(404), Answered(500), Answered(200)>>
    /\ Len(sent["c1"]) = 3
    /\ Len(log["c1"]) = 2
    /\ validated["c1"] = <<3>>
    /\ result["c1"] = TestPassed

\* No call of the four functions has issued a request or written a line.
NothingSentOrLogged ==
    \A c \in Calls : sent[c] = <<>> /\ log[c] = <<>> /\ events[c] = <<>>

\* C19: createRandomUsersRequestBody(n) returns an array of exactly n user
\* objects for every integer n >= 0 (the empty array for n <= 0), each with
\* id in 1..100000 and userStatus in 0..10, and issues no request and emits
\* no diagnostic.
C19_UsersArrayOfLengthN ==
    /\ NothingSentOrLogged
    /\ users.pc = "done" =>
         /\ users.amountOfUsers >= 0 => Len(users.usersArray) = users.amountOfUsers
         /\ users.amountOfUsers <= 0 => users.usersArray = <<>>
         /\ \A j \in 1..Len(users.usersArray) :
              /\ users.usersArray[j].id \in 1..100000
              /\ users.usersArray[j].userStatus \in 0..10

\* Three users returned, among them both ends of the two ranges.
C19_Witness ==
    /\ users.pc = "done"
    /\ users.amountOfUsers = 3
    /\ Len(users.usersArray) = 3
    /\ users.usersArray[1].id = 1
    /\ users.usersArray[2].id = 100000
    /\ users.usersArray[2].userStatus = 0
    /\ users.usersArray[3].userStatus = 10

\* A negative amount gave the empty array.
C19_WitnessNegative ==
    /\ users.pc = "done"
    /\ users.amountOfUsers = -1
    /\ users.usersArray = <<>>

====
